---- MODULE Spec2Model ----
(***************************************************************************)
(* Model of the Monster.com jobs MCP server (kdkiss/mcp-monster-jobs).     *)
(*                                                                         *)
(* Specifications:                                                         *)
(*   Spec         server.js (fetch + cheerio, module-level jobCache,       *)
(*                jobIndex and jobIdIndex): two requests in flight, the    *)
(*                clock free to stand still between two store updates.     *)
(*   SpecEvict    server.js again, explored past the eleventh store update *)
(*                so that the eviction runs: two requests in flight, every *)
(*                store update in a millisecond of its own.                *)
(*   SpecBrowser  the puppeteer variant with the process-wide              *)
(*                sharedBrowser obtained through getBrowser().             *)
(*   SpecListing  server.js over empty pages and limits below 1.           *)
(*   SpecLive     Spec with the fairness of the fetch timers.              *)
(*   SpecUrl      buildSearchUrl applied to arguments of every kind.       *)
(*   SpecCard     the fields and the description read from one job card.   *)
(*   SpecParse    the query parser of the text protocol, as specified.     *)
(*   SpecPure     buildSearchUrl called between the store updates of two   *)
(*                requests.                                                *)
(* JavaScript runs every handler to its next await without interruption,   *)
(* so one action is the code between two awaits of one request.            *)
(***************************************************************************)
EXTENDS Integers, Sequences, FiniteSets, TLC

VARIABLES
  jobCache,      \* Map searchId -> jobs, in key insertion order
  jobIndex,      \* Map jobNumber -> job
  jobIdIndex,    \* Map jobId -> job
  now,           \* the millisecond clock read by Date.now()
  req,           \* per request: the await it is suspended at, and its locals
  reply,         \* the value returned to the caller by the step just taken
  nStored,       \* number of store updates so far; names the job arrays
  sharedBrowser, \* the process-wide browser instance, 0 = null
  launches,      \* number of puppeteer.launch() calls that resolved
  openPages      \* number of pages opened by browser.newPage() and not closed

vars == <<jobCache, jobIndex, jobIdIndex, now, req, reply, nStored,
          sharedBrowser, launches, openPages>>

storeVars == <<jobCache, jobIndex, jobIdIndex, now, nStored>>
browserVars == <<sharedBrowser, launches, openPages>>

----------------------------------------------------------------------------
(* Bounds of the model                                                     *)

MaxSearches == 3        \* store updates explored in Spec
MaxEvictSearches == 11  \* store updates explored in SpecEvict
MaxBrowserSearches == 2 \* store updates explored in SpecBrowser
MaxPages == 3           \* pages opened in SpecBrowser
MaxListingSearches == 2 \* store updates explored in SpecListing
MaxPureSearches == 2    \* store updates explored in SpecPure

(* Program constants                                                       *)

MaxCached == 10        \* jobCache.size > 10
DefaultLimit == 10     \* limit = 10

Reqs == {"r1", "r2"}   \* requests that may be in flight together

----------------------------------------------------------------------------
(* Inputs: listing pages, as the sequence of job cards the selector finds  *)

CardA1 == [title |-> "Analyst", company |-> "Acme", dataJobId |-> "j1",
           href |-> "//m/analyst--j1?", throws |-> FALSE]
CardA2 == [title |-> "Clerk", company |-> "Acme", dataJobId |-> "",
           href |-> "https://m/clerk", throws |-> FALSE]
CardB1 == [title |-> "Driver", company |-> "Bolt", dataJobId |-> "",
           href |-> "//m/driver--j2?", throws |-> FALSE]
\* a card whose title element has no string href: jobUrl.match throws
CardC1 == [title |-> "Nurse", company |-> "Care", dataJobId |-> "",
           href |-> "", throws |-> TRUE]

PageA == <<CardA1, CardA2>>
PageB == <<CardB1>>
PageC == <<CardC1, CardA2>>
\* a listing page on which the card selector finds nothing
PageEmpty == <<>>
Pages == {PageA, PageB}
BrowserPages == {PageA, PageC}
ListingPages == {PageEmpty, PageA, PageB}

Limits == {DefaultLimit}
BrowserLimits == {1, DefaultLimit}
ListingLimits == {-1, 0, 1, DefaultLimit}

\* FetchFailures of a fetch that is given no abort signal
FetchFailuresNoTimeout == {"network", "status"}

\* how a fetch can end without a page: the request rejects, the answer has
\* a non-ok status, or AbortSignal.timeout(10000) fires
FetchFailures == {"network", "status", "timeout"}

JobNumberArgs == 0..3            \* 0 stands for an absent job_number
JobIdArgs == {"", "j1", "j2", "zz"}  \* "" stands for an absent job_id

----------------------------------------------------------------------------
(* Helpers                                                                 *)

Min(a, b) == IF a < b THEN a ELSE b
Max(a, b) == IF a > b THEN a ELSE b

EmptyMap == [k \in {} |-> 0]

\* Map.prototype.set on the index maps
MapPut(m, k, v) == [x \in DOMAIN m \cup {k} |-> IF x = k THEN v ELSE m[x]]

\* Map.prototype.get; NoJob stands for undefined
NoJob == [jobNumber |-> 0]
MapGet(m, k) == IF k \in DOMAIN m THEN m[k] ELSE NoJob

\* Array.prototype.slice(0, end)
Slice(s, end) ==
  LET n == IF end < 0 THEN Max(Len(s) + end, 0) ELSE Min(end, Len(s))
  IN SubSeq(s, 1, n)

\* jobUrl.match(/--([a-f0-9-]+)\?/)?.[1]
UrlJobId(href) ==
  CASE href = "//m/analyst--j1?" -> "j1"
    [] href = "//m/driver--j2?" -> "j2"
    [] OTHER -> ""

\* if (jobUrl.startsWith('//')) jobUrl = 'https:' + jobUrl
AbsoluteUrl(href) ==
  CASE href = "//m/analyst--j1?" -> "https://m/analyst--j1?"
    [] href = "//m/driver--j2?" -> "https://m/driver--j2?"
    [] OTHER -> href

----------------------------------------------------------------------------
(* The listing extraction of server.js: every card of the slice becomes a  *)
(* job numbered by its position in the slice                               *)

\* jobButton.attr('data-job-id') || jobUrl.match(...)?.[1] || ''
CardJobId(card) ==
  IF card.dataJobId # "" THEN card.dataJobId ELSE UrlJobId(card.href)

\* MakeJob numbering the jobs from 0 (jobNumber: i)
MakeJobZeroBased(card, i, owner) ==
  [jobNumber |-> i,
   title |-> card.title,
   company |-> card.company,
   jobId |-> CardJobId(card),
   jobUrl |-> AbsoluteUrl(card.href),
   owner |-> owner]

\* the object pushed for card i; owner names the array it is pushed to
MakeJob(card, i, owner) ==
  [jobNumber |-> i + 1,
   title |-> card.title,
   company |-> card.company,
   jobId |-> CardJobId(card),
   jobUrl |-> AbsoluteUrl(card.href),
   owner |-> owner]

\* $(cards).slice(0, limit).each((i, el) => jobs.push({...}))
ExtractJobs(page, limit, owner) ==
  LET cards == Slice(page, limit)
  IN [i \in 1..Len(cards) |-> MakeJob(cards[i], i - 1, owner)]

----------------------------------------------------------------------------
(* The store                                                               *)

CacheKeys(cache) == {cache[i].key : i \in 1..Len(cache)}

\* jobCache.set(searchId, jobs): a new key goes last, a known key keeps its
\* place and gets the new value; owner names the array object stored
CacheSet(cache, key, jobs, owner) ==
  LET entry == [key |-> key, owner |-> owner, jobs |-> jobs]
  IN IF key \in CacheKeys(cache)
     THEN [i \in 1..Len(cache) |->
             IF cache[i].key = key THEN entry ELSE cache[i]]
     ELSE Append(cache, entry)

\* IndexByNumber starting at the second job
IndexByNumberSkipFirst(idx, jobs) ==
  LET later == {i \in 1..Len(jobs) : i > 1}
      at(n) == CHOOSE i \in later : jobs[i].jobNumber = n /\
                 \A q \in later : jobs[q].jobNumber = n => q <= i
  IN [n \in DOMAIN idx \cup {jobs[i].jobNumber : i \in later} |->
        IF \E i \in later : jobs[i].jobNumber = n THEN jobs[at(n)]
        ELSE idx[n]]

\* IndexByNumber keeping the entry a sequence number already has
RECURSIVE IndexByNumberKeepFirst(_, _)
IndexByNumberKeepFirst(idx, jobs) ==
  IF jobs = <<>> THEN idx
  ELSE IndexByNumberKeepFirst(
         IF Head(jobs).jobNumber \in DOMAIN idx THEN idx
         ELSE MapPut(idx, Head(jobs).jobNumber, Head(jobs)),
         Tail(jobs))

\* jobs.forEach(job => { jobIndex.set(job.jobNumber, job); ... })
RECURSIVE IndexByNumber(_, _)
IndexByNumber(idx, jobs) ==
  IF jobs = <<>> THEN idx
  ELSE IndexByNumber(MapPut(idx, Head(jobs).jobNumber, Head(jobs)), Tail(jobs))

\* jobs.forEach(job => { ...; if (job.jobId) jobIdIndex.set(job.jobId, job) })
RECURSIVE IndexById(_, _)
IndexById(idx, jobs) ==
  IF jobs = <<>> THEN idx
  ELSE IndexById(IF Head(jobs).jobId # ""
                 THEN MapPut(idx, Head(jobs).jobId, Head(jobs))
                 ELSE idx,
                 Tail(jobs))

\* EvictOldest deleting the key inserted last
EvictNewest(cache) ==
  IF Len(cache) > MaxCached THEN SubSeq(cache, 1, Len(cache) - 1) ELSE cache

\* EvictOldest comparing against one more than the limit
EvictLate(cache) ==
  IF Len(cache) > MaxCached + 1 THEN Tail(cache) ELSE cache

\* if (jobCache.size > 10) { const [oldestKey] = jobCache.keys();
\*                           jobCache.delete(oldestKey); }
EvictOldest(cache) ==
  IF Len(cache) > MaxCached THEN Tail(cache) ELSE cache

\* the jobs of all cached searches: Array.from(jobCache.values()).flat()
RECURSIVE FlatJobs(_)
FlatJobs(cache) ==
  IF cache = <<>> THEN <<>>
  ELSE Head(cache).jobs \o FlatJobs(Tail(cache))

\* .map(job => ({ jobNumber, title, company }))
Summary(job) ==
  [jobNumber |-> job.jobNumber, title |-> job.title, company |-> job.company]

\* AvailableJobs listing the jobs of the latest search only
AvailableJobsLatest(cache) ==
  LET all == IF cache = <<>> THEN <<>> ELSE cache[Len(cache)].jobs
  IN [i \in 1..Len(all) |-> Summary(all[i])]

AvailableJobs(cache) ==
  LET all == FlatJobs(cache)
  IN [i \in 1..Len(all) |-> Summary(all[i])]

\* what a suspended detail request keeps of targetJob
Target(job) ==
  [jobNumber |-> job.jobNumber, title |-> job.title,
   company |-> job.company, jobId |-> job.jobId, jobUrl |-> job.jobUrl]

\* LookupJob trying the external id when the sequence number finds nothing
LookupJobIdFallback(job_number, job_id) ==
  IF job_number # 0 /\ MapGet(jobIndex, job_number) # NoJob
  THEN MapGet(jobIndex, job_number)
  ELSE IF job_id # "" THEN MapGet(jobIdIndex, job_id)
  ELSE NoJob

\* if (job_number) jobIndex.get(job_number) else if (job_id) jobIdIndex.get
LookupJob(job_number, job_id) ==
  IF job_number # 0 THEN MapGet(jobIndex, job_number)
  ELSE IF job_id # "" THEN MapGet(jobIdIndex, job_id)
  ELSE NoJob

\* jobs.find(job => job.jobNumber === job_number)
FindByNumber(jobs, n) ==
  LET at == {j \in 1..Len(jobs) : jobs[j].jobNumber = n}
  IN IF at = {} THEN NoJob
     ELSE jobs[CHOOSE j \in at : \A q \in at : j <= q]

\* jobs.find(job => job.jobId === job_id)
FindById(jobs, id) ==
  LET at == {j \in 1..Len(jobs) : jobs[j].jobId = id}
  IN IF at = {} THEN NoJob
     ELSE jobs[CHOOSE j \in at : \A q \in at : j <= q]

\* for (const [searchId, jobs] of this.jobCache.entries()) {
\*   targetJob = jobs.find(...); if (targetJob) break; }
RECURSIVE ScanByNumber(_, _)
ScanByNumber(cache, n) ==
  IF cache = <<>> THEN NoJob
  ELSE IF FindByNumber(Head(cache).jobs, n) # NoJob
  THEN FindByNumber(Head(cache).jobs, n)
  ELSE ScanByNumber(Tail(cache), n)

RECURSIVE ScanById(_, _)
ScanById(cache, id) ==
  IF cache = <<>> THEN NoJob
  ELSE IF FindById(Head(cache).jobs, id) # NoJob
  THEN FindById(Head(cache).jobs, id)
  ELSE ScanById(Tail(cache), id)

\* the lookup of the class variant, which keeps no index
ScanLookup(job_number, job_id) ==
  IF job_number # 0 THEN ScanByNumber(jobCache, job_number)
  ELSE IF job_id # "" THEN ScanById(jobCache, job_id)
  ELSE NoJob

----------------------------------------------------------------------------
(* Values returned to the caller                                           *)

NoReply == [op |-> "none"]

SearchSuccess(searchId, jobs) ==
  [success |-> TRUE, searchId |-> searchId, totalResults |-> Len(jobs),
   jobs |-> [i \in 1..Len(jobs) |-> Summary(jobs[i])]]

\* SearchFailure swallowing the error and returning an empty result
SearchFailureAsEmpty(why) ==
  [success |-> TRUE, searchId |-> 0, totalResults |-> 0, jobs |-> <<>>]

SearchFailure(why) ==
  [success |-> FALSE, error |-> why,
   details |-> "Failed to search Monster.com jobs"]

NotFound(cache) ==
  [success |-> FALSE,
   error |-> "Job not found in cache. Please run a search first.",
   available_jobs |-> AvailableJobs(cache)]

DetailSuccess(target) ==
  [success |-> TRUE, jobNumber |-> target.jobNumber, jobId |-> target.jobId,
   url |-> target.jobUrl, details |-> "details"]

DetailFailure(why, target) ==
  [success |-> FALSE, error |-> why,
   details |-> "Failed to retrieve job details",
   jobInfo |-> [jobNumber |-> target.jobNumber, title |-> target.title,
                company |-> target.company, url |-> target.jobUrl]]

\* return { error: 'Job details container not found' }
ContainerMissing(target) ==
  [error |-> "Job details container not found"]

Idle == [pc |-> "idle"]

----------------------------------------------------------------------------------------------------------------------------------------
(* server.js                                                               *)

Init ==
  /\ jobCache = <<>>
  /\ jobIndex = EmptyMap
  /\ jobIdIndex = EmptyMap
  /\ now = 0
  /\ req = [r \in Reqs |-> Idle]
  /\ reply = NoReply
  /\ nStored = 0
  /\ sharedBrowser = 0
  /\ launches = 0
  /\ openPages = 0

\* the store update of searchJobs: no await between its statements
StoreUpdate(searchId, jobs) ==
  /\ now' = searchId
  /\ jobCache' = EvictOldest(CacheSet(jobCache, searchId, jobs, nStored + 1))
  /\ jobIndex' = IndexByNumber(jobIndex, jobs)
  /\ jobIdIndex' = IndexById(jobIdIndex, jobs)
  /\ nStored' = nStored + 1

\* searchJobs up to `await fetch(searchUrl, ...)`
searchStartWith(r, budget, limits) ==
  /\ reply = NoReply
  /\ req[r].pc = "idle"
  /\ nStored < budget
  /\ \E limit \in limits :
       req' = [req EXCEPT ![r] = [pc |-> "searchFetch", limit |-> limit]]
  /\ UNCHANGED <<reply, storeVars, browserVars>>

searchStart(r, budget) == searchStartWith(r, budget, Limits)

\* the listing page arrives: extraction, store update and return run
\* without an await in between; Date.now() has advanced by dt since the
\* last store update
\* the reply records, next to the value returned, the page that was fetched
\* and the limit of the request
searchDoneWith(r, budget, advance, pages) ==
  /\ reply = NoReply
  /\ req[r].pc = "searchFetch"
  /\ nStored < budget
  /\ \E page \in pages, dt \in advance :
       LET jobs == ExtractJobs(page, req[r].limit, nStored + 1)
           searchId == now + dt
       IN /\ StoreUpdate(searchId, jobs)
          /\ reply' = [op |-> "search", outcome |-> "ok", page |-> page,
                       limit |-> req[r].limit,
                       value |-> SearchSuccess(searchId, jobs)]
  /\ req' = [req EXCEPT ![r] = Idle]
  /\ UNCHANGED browserVars

searchDone(r, budget, advance) == searchDoneWith(r, budget, advance, Pages)

searchJobs(r) == searchStart(r, MaxSearches)

searchStored(r) == searchDone(r, MaxSearches, {0, 1})

\* searchFetchFailed caching an empty session for the failed search
searchFetchFailedStoresEmpty(r) ==
  /\ reply = NoReply
  /\ req[r].pc = "searchFetch"
  /\ \E why \in FetchFailures :
       reply' = [op |-> "search", outcome |-> why,
                 value |-> SearchFailure(why)]
  /\ req' = [req EXCEPT ![r] = Idle]
  /\ jobCache' = CacheSet(jobCache, now, <<>>, nStored + 1)
  /\ UNCHANGED <<jobIndex, jobIdIndex, now, nStored, browserVars>>

\* the fetch rejects, times out or answers with a non-ok status: the catch
\* block returns the failure value
searchFetchFailed(r) ==
  /\ reply = NoReply
  /\ req[r].pc = "searchFetch"
  /\ \E why \in FetchFailures :
       reply' = [op |-> "search", outcome |-> why,
                 value |-> SearchFailure(why)]
  /\ req' = [req EXCEPT ![r] = Idle]
  /\ UNCHANGED <<storeVars, browserVars>>

\* getJobDetails when the lookup finds nothing: returns at once
detailNotFound(r) ==
  /\ reply = NoReply
  /\ req[r].pc = "idle"
  /\ \E job_number \in JobNumberArgs, job_id \in JobIdArgs :
       /\ LookupJob(job_number, job_id) = NoJob
       /\ reply' = [op |-> "detail", outcome |-> "notfound",
                    job_number |-> job_number, job_id |-> job_id,
                    value |-> NotFound(jobCache)]
  /\ UNCHANGED <<req, storeVars, browserVars>>

\* getJobDetails up to `await fetch(targetJob.jobUrl, ...)`
getJobDetails(r) ==
  /\ reply = NoReply
  /\ req[r].pc = "idle"
  /\ \E job_number \in JobNumberArgs, job_id \in JobIdArgs :
       /\ LookupJob(job_number, job_id) # NoJob
       /\ req' = [req EXCEPT ![r] =
                    [pc |-> "detailFetch",
                     target |-> Target(LookupJob(job_number, job_id))]]
  /\ UNCHANGED <<reply, storeVars, browserVars>>

\* detailFetchFailed dropping the cached job whose detail fetch failed
detailFetchFailedInvalidates(r) ==
  /\ reply = NoReply
  /\ req[r].pc = "detailFetch"
  /\ \E why \in FetchFailures :
       reply' = [op |-> "detail", outcome |-> why, target |-> req[r].target,
                 value |-> DetailFailure(why, req[r].target)]
  /\ req' = [req EXCEPT ![r] = Idle]
  /\ jobIndex' = [n \in DOMAIN jobIndex \ {req[r].target.jobNumber} |->
                    jobIndex[n]]
  /\ UNCHANGED <<jobCache, jobIdIndex, now, nStored, browserVars>>

\* the fetch of the detail page rejects, times out or answers non-ok
detailFetchFailed(r) ==
  /\ reply = NoReply
  /\ req[r].pc = "detailFetch"
  /\ \E why \in FetchFailures :
       reply' = [op |-> "detail", outcome |-> why, target |-> req[r].target,
                 value |-> DetailFailure(why, req[r].target)]
  /\ req' = [req EXCEPT ![r] = Idle]
  /\ UNCHANGED <<storeVars, browserVars>>

\* the detail page arrives without the container
detailNoContainer(r) ==
  /\ reply = NoReply
  /\ req[r].pc = "detailFetch"
  /\ reply' = [op |-> "detail", outcome |-> "nocontainer",
               target |-> req[r].target,
               value |-> ContainerMissing(req[r].target)]
  /\ req' = [req EXCEPT ![r] = Idle]
  /\ UNCHANGED <<storeVars, browserVars>>

\* the detail page arrives with the container
detailFetched(r) ==
  /\ reply = NoReply
  /\ req[r].pc = "detailFetch"
  /\ reply' = [op |-> "detail", outcome |-> "ok", target |-> req[r].target,
               value |-> DetailSuccess(req[r].target)]
  /\ req' = [req EXCEPT ![r] = Idle]
  /\ UNCHANGED <<storeVars, browserVars>>

\* the request handler hands the returned value to the transport; this
\* continuation runs before any other request's callback
respond ==
  /\ reply # NoReply
  /\ reply' = NoReply
  /\ UNCHANGED <<req, storeVars, browserVars>>

Next ==
  \/ \E r \in Reqs :
       \/ searchJobs(r)
       \/ searchFetchFailed(r)
       \/ searchStored(r)
       \/ detailNotFound(r)
       \/ getJobDetails(r)
       \/ detailFetchFailed(r)
       \/ detailNoContainer(r)
       \/ detailFetched(r)
  \/ respond

Spec == Init /\ [][Next]_vars

----------------------------------------------------------------------------
(* server.js with the scheduling of the timers and of the reply            *)

\* AbortSignal.timeout(10000) fires while the listing fetch is pending
searchTimedOut(r) == searchFetchFailed(r) /\ reply'.outcome = "timeout"

\* AbortSignal.timeout(10000) fires while the detail fetch is pending
detailTimedOut(r) == detailFetchFailed(r) /\ reply'.outcome = "timeout"

\* The remote site is free never to answer: no fairness on an arriving page
\* or on a network error.  The event loop runs the callback of an expired
\* timer in its next timers phase, whatever the other requests do, and runs
\* the continuation that hands a returned value to the transport.
Fairness ==
  /\ WF_vars(respond)
  /\ \A r \in Reqs : SF_vars(searchTimedOut(r)) /\ SF_vars(detailTimedOut(r))

SpecLive == Init /\ [][Next]_vars /\ Fairness

----------------------------------------------------------------------------
(* server.js explored past the eviction                                    *)

evictSearchJobs(r) == searchStart(r, MaxEvictSearches)

\* every store update reads a later millisecond than the one before
evictSearchStored(r) == searchDone(r, MaxEvictSearches, {1})

NextEvict ==
  \/ \E r \in Reqs :
       \/ evictSearchJobs(r)
       \/ searchFetchFailed(r)
       \/ evictSearchStored(r)
       \/ detailNotFound(r)
       \/ getJobDetails(r)
       \/ detailFetchFailed(r)
       \/ detailNoContainer(r)
       \/ detailFetched(r)
  \/ respond

SpecEvict == Init /\ [][NextEvict]_vars

----------------------------------------------------------------------------
(* server.js over the listing pages and limits a caller can meet: an empty *)
(* page, limits below 1 and below the number of cards                      *)

listingSearchJobs(r) == searchStartWith(r, MaxListingSearches, ListingLimits)

listingSearchStored(r) ==
  searchDoneWith(r, MaxListingSearches, {0, 1}, ListingPages)

NextListing ==
  \/ \E r \in Reqs :
       \/ listingSearchJobs(r)
       \/ searchFetchFailed(r)
       \/ listingSearchStored(r)
       \/ detailNotFound(r)
       \/ getJobDetails(r)
       \/ detailFetchFailed(r)
       \/ detailNoContainer(r)
       \/ detailFetched(r)
  \/ respond

SpecListing == Init /\ [][NextListing]_vars

----------------------------------------------------------------------------
(* buildSearchUrl, called directly and from searchJobs                     *)

\* JavaScript values of the arguments
Undefined == [type |-> "undefined"]
Null == [type |-> "null"]
Num(n) == [type |-> "number", n |-> n]
Str(s) == [type |-> "string", s |-> s]

\* if (x): undefined, null and '' are falsy
Truthy(x) == x.type = "string" /\ x.s # ""

Queries == {"hr admin", "nurse"}
Locations == {"winnetka", "New York, NY"}
Radii == {Undefined, Null} \cup {Num(n) : n \in {-1, 0, 1, 5, 50, 51}}
RecencyEnum == {"today", "last+2+days", "last+week", "last+2+weeks"}
Recencies ==
  {Undefined, Null} \cup {Str(s) : s \in RecencyEnum \cup {"", "bogus"}}

DefaultRadius == Num(5)
DefaultRecency == Str("last+week")
BaseUrl == "https://www.monster.com/jobs/search"

\* Number.prototype.toString() of an integer
DigitChars == <<"0", "1", "2", "3", "4", "5", "6", "7", "8", "9">>
RECURSIVE Digits(_)
Digits(n) ==
  IF n < 10 THEN DigitChars[n + 1]
  ELSE Digits(n \div 10) \o DigitChars[(n % 10) + 1]
NumberToString(n) == IF n < 0 THEN "-" \o Digits(-n) ELSE Digits(n)

\* the application/x-www-form-urlencoded serializer of URLSearchParams:
\* a space becomes +, every byte outside [A-Za-z0-9*._-] is percent-encoded
Encode(str) ==
  CASE str = "hr admin" -> "hr+admin"
    [] str = "New York, NY" -> "New+York%2C+NY"
    [] str = "last+2+days" -> "last%2B2%2Bdays"
    [] str = "last+week" -> "last%2Bweek"
    [] str = "last+2+weeks" -> "last%2B2%2Bweeks"
    [] OTHER -> str

Param(name, value) == [name |-> name, value |-> value]

\* params.toString(): name=value pairs in list order, joined by &
RECURSIVE Serialize(_)
Serialize(params) ==
  IF params = <<>> THEN ""
  ELSE Head(params).name \o "=" \o Encode(Head(params).value)
       \o (IF Tail(params) = <<>> THEN "" ELSE "&" \o Serialize(Tail(params)))

\* the outcome of a call: the string returned together with the parameter
\* list it was serialized from, or the exception thrown
Built(params) ==
  [threw |-> FALSE, params |-> params,
   href |-> BaseUrl \o "?" \o Serialize(params)]
Threw(error) == [threw |-> TRUE, error |-> error]

\* buildSearchUrl appending every recency that is not falsy
buildSearchUrlAnyRecency(query, location, radius, recency) ==
  IF radius.type # "number" THEN Threw("TypeError")
  ELSE Built(<<Param("q", query), Param("where", location),
               Param("page", "1"), Param("rd", NumberToString(radius.n)),
               Param("so", "m.h.sh")>>
             \o (IF Truthy(recency) THEN <<Param("recency", recency.s)>>
                 ELSE <<>>))

\* buildSearchUrl numbering the page by the searches stored so far
buildSearchUrlCounting(query, location, radius, recency) ==
  IF radius.type # "number" THEN Threw("TypeError")
  ELSE Built(<<Param("q", query), Param("where", location),
               Param("page", NumberToString(nStored + 1)),
               Param("rd", NumberToString(radius.n)),
               Param("so", "m.h.sh")>>
             \o (IF Truthy(recency) /\ recency # DefaultRecency
                 THEN <<Param("recency", recency.s)>>
                 ELSE <<>>))

\* radius.toString() throws a TypeError on undefined and on null, before
\* the URLSearchParams is constructed
buildSearchUrl(query, location, radius, recency) ==
  IF radius.type # "number" THEN Threw("TypeError")
  ELSE Built(<<Param("q", query), Param("where", location),
               Param("page", "1"), Param("rd", NumberToString(radius.n)),
               Param("so", "m.h.sh")>>
             \o (IF Truthy(recency) /\ recency # DefaultRecency
                 THEN <<Param("recency", recency.s)>>
                 ELSE <<>>))

\* a destructuring default applies to undefined only
OrDefault(x, default) == IF x = Undefined THEN default ELSE x

UrlReqs == {"r1"}

\* a call buildSearchUrl(query, location, radius, recency)
callBuildSearchUrlWith(queries, locations, radii, recencies) ==
  /\ reply = NoReply
  /\ \E query \in queries, location \in locations,
        radius \in radii, recency \in recencies :
       reply' = [op |-> "url", query |-> query, location |-> location,
                 radius |-> radius, recency |-> recency, given |-> recency,
                 url |-> buildSearchUrl(query, location, radius, recency)]
  /\ UNCHANGED <<req, storeVars, browserVars>>

\* searchJobs(args) up to `await fetch(searchUrl, ...)`, or through its
\* catch block when buildSearchUrl throws
searchBuildsUrlWith(r, queries, locations, radii, recencies) ==
  /\ reply = NoReply
  /\ req[r].pc = "idle"
  /\ \E query \in queries, location \in locations,
        radiusArg \in radii, recencyArg \in recencies :
       LET radius == OrDefault(radiusArg, DefaultRadius)
           recency == OrDefault(recencyArg, DefaultRecency)
           searchUrl == buildSearchUrl(query, location, radius, recency)
           call == [query |-> query, location |-> location,
                    radius |-> radius, recency |-> recency,
                    given |-> recencyArg, url |-> searchUrl]
       IN IF searchUrl.threw
          THEN /\ reply' = [op |-> "search", outcome |-> "threw",
                            value |-> SearchFailure(searchUrl.error)]
                            @@ call
               /\ req' = req
          ELSE /\ req' = [req EXCEPT ![r] = [pc |-> "searchFetch",
                                              limit |-> DefaultLimit] @@ call]
               /\ reply' = reply
  /\ UNCHANGED <<storeVars, browserVars>>

callBuildSearchUrl ==
  callBuildSearchUrlWith(Queries, Locations, Radii, Recencies)

searchBuildsUrl(r) ==
  searchBuildsUrlWith(r, Queries, Locations, Radii, Recencies)

NextUrl ==
  \/ callBuildSearchUrl
  \/ \E r \in UrlReqs :
       \/ searchBuildsUrl(r)
       \/ searchFetchFailed(r)
  \/ respond

SpecUrl == Init /\ [][NextUrl]_vars

----------------------------------------------------------------------------
(* buildSearchUrl called while searches of two requests change the store   *)

PureQueries == {"hr admin"}
PureLocations == {"winnetka"}
PureRadii == {Num(5), Num(51)}
PureRecencies == {Undefined, Str("today")}

pureCallBuildSearchUrl ==
  callBuildSearchUrlWith(PureQueries, PureLocations, PureRadii, PureRecencies)

pureSearchBuildsUrl(r) ==
  searchBuildsUrlWith(r, PureQueries, PureLocations, PureRadii, PureRecencies)

pureSearchStored(r) == searchDoneWith(r, MaxPureSearches, {0, 1}, Pages)

NextPure ==
  \/ pureCallBuildSearchUrl
  \/ \E r \in Reqs :
       \/ pureSearchBuildsUrl(r)
       \/ pureSearchStored(r)
       \/ searchFetchFailed(r)
  \/ respond

SpecPure == Init /\ [][NextPure]_vars

----------------------------------------------------------------------------
(* The fields read from one job card and the description made of them.     *)
(* A card gives the text of each element; "" when the element is missing.  *)

DetailCards ==
  {[title |-> t, company |-> c, location |-> l, salary |-> p, recency |-> d] :
     t \in {"", "Analyst", " Clerk "}, c \in {"", " Acme "},
     l \in {"", "Winnetka, IL"}, p \in {"", "$20 / hr", "Not specified"},
     d \in {"", " ", "2 days ago"}}

\* String.prototype.trim()
Trim(text) ==
  CASE text = " Clerk " -> "Clerk"
    [] text = " Acme " -> "Acme"
    [] text = " " -> ""
    [] OTHER -> text

\* card.find(selector).text().trim() || default
TextOr(text, default) == IF Trim(text) = "" THEN default ELSE Trim(text)

\* Describe with the salary clause in every description
DescribeAlwaysSalary(company, title, location, salary, recency) ==
  company \o " is hiring for a " \o title \o " position in " \o location
  \o "." \o " Salary: " \o salary \o "." \o " Posted: " \o recency \o "."

\* let description = `...`; if (salary !== 'Not specified') description +=
\* ` Salary: ${salary}.`; description += ` Posted: ${recency}.`
Describe(company, title, location, salary, recency) ==
  company \o " is hiring for a " \o title \o " position in " \o location
  \o "."
  \o (IF salary # "Not specified" THEN " Salary: " \o salary \o "." ELSE "")
  \o " Posted: " \o recency \o "."

\* the fields of the object pushed for a card
ExtractFields(card) ==
  LET title == TextOr(card.title, "N/A")
      company == TextOr(card.company, "N/A")
      location == TextOr(card.location, "N/A")
      recency == TextOr(card.recency, "N/A")
      salary == TextOr(card.salary, "Not specified")
  IN [title |-> title, company |-> company, location |-> location,
      salary |-> salary, recency |-> recency,
      description |-> Describe(company, title, location, salary, recency)]

\* one turn of the each() callback
extractCard ==
  /\ reply = NoReply
  /\ \E card \in DetailCards :
       reply' = [op |-> "card", card |-> card, job |-> ExtractFields(card)]
  /\ UNCHANGED <<req, storeVars, browserVars>>

NextCard == extractCard \/ respond

SpecCard == Init /\ [][NextCard]_vars

----------------------------------------------------------------------------
(* The query parser of the text protocol: free text to search parameters.  *)
(* A text is the sequence of its words, whitespace already normalized.     *)

Fillers == {<<>>, <<"get">>, <<"find", "me">>}
Titles == {<<>>, <<"hr", "admin">>}
JobsWords == {<<>>, <<"jobs">>}
NearClauses == {<<>>, <<"near">>, <<"Near", "winnetka">>}
WithinClauses ==
  {<<>>, <<"within", "5", "miles">>, <<"WITHIN", "1", "mile">>,
   <<"within", "miles">>}
RecencyPhrases == {<<>>, <<"today">>, <<"last", "2", "weeks">>}

Texts ==
  {f \o t \o j \o n \o w \o p :
     f \in Fillers, t \in Titles, j \in JobsWords, n \in NearClauses,
     w \in WithinClauses, p \in RecencyPhrases}

ParserDefaultTitle == <<"jobs">>
ParserDefaultLocation == <<"Los", "Angeles,", "CA">>
ParserDefaultRadius == 5
ParserDefaultRecency == "last_week"

\* parsing is case-insensitive
Lower(word) ==
  CASE word = "Near" -> "near"
    [] word = "WITHIN" -> "within"
    [] OTHER -> word

LowerAll(text) == [i \in 1..Len(text) |-> Lower(text[i])]

\* the number a word spells, 0 when the word is not a number
NumberOf(word) ==
  CASE word = "1" -> 1
    [] word = "2" -> 2
    [] word = "5" -> 5
    [] OTHER -> 0

\* the position of the first occurrence of word at or after from, 0 if none
FirstAt(words, word, from) ==
  LET at == {i \in from..Len(words) : words[i] = word}
  IN IF at = {} THEN 0 ELSE CHOOSE i \in at : \A j \in at : i <= j

\* the position of the first "within N mile(s)", 0 if none
WithinAt(words) ==
  LET at == {i \in 1..Len(words) - 2 :
               /\ words[i] = "within"
               /\ NumberOf(words[i + 1]) > 0
               /\ words[i + 2] \in {"mile", "miles"}}
  IN IF at = {} THEN 0 ELSE CHOOSE i \in at : \A j \in at : i <= j

ParseRadius(words) ==
  IF WithinAt(words) = 0 THEN ParserDefaultRadius
  ELSE NumberOf(words[WithinAt(words) + 1])

\* the words after "near"
NearWords(words) ==
  LET n == FirstAt(words, "near", 1)
      w == IF n = 0 THEN 0 ELSE FirstAt(words, "within", n + 1)
  IN IF n = 0 THEN <<>>
     ELSE SubSeq(words, n + 1, IF w = 0 THEN Len(words) ELSE w - 1)

\* ParseLocation returning what follows "near" as it is
ParseLocationNoDefault(words) == NearWords(words)

\* the words after "near" up to "within" or the end of the text
ParseLocation(words) ==
  IF NearWords(words) = <<>> THEN ParserDefaultLocation ELSE NearWords(words)

\* the words before "near", without a leading filler and a trailing "jobs"
TitleWords(words) ==
  LET n == FirstAt(words, "near", 1)
      w == FirstAt(words, "within", 1)
      before == SubSeq(words, 1, IF n # 0 THEN n - 1
                                 ELSE IF w # 0 THEN w - 1 ELSE Len(words))
      body == IF Len(before) >= 1 /\ before[1] = "get"
              THEN Tail(before)
              ELSE IF Len(before) >= 2 /\ before[1] = "find"
                      /\ before[2] = "me"
              THEN Tail(Tail(before))
              ELSE before
  IN IF body # <<>> /\ body[Len(body)] = "jobs"
     THEN SubSeq(body, 1, Len(body) - 1) ELSE body

ParseTitle(words) ==
  IF TitleWords(words) = <<>> THEN ParserDefaultTitle ELSE TitleWords(words)

HasPhrase(words, phrase) ==
  \E i \in 1..Len(words) - Len(phrase) + 1 :
    SubSeq(words, i, i + Len(phrase) - 1) = phrase

ParseRecency(words) ==
  IF HasPhrase(words, <<"today">>) THEN "today"
  ELSE IF HasPhrase(words, <<"last", "2", "days">>) THEN "last_2_days"
  ELSE IF HasPhrase(words, <<"last", "2", "weeks">>) THEN "last_2_weeks"
  ELSE ParserDefaultRecency

\* parse(text) -> SearchParameters
parse(text) ==
  LET words == LowerAll(text)
  IN [jobTitle |-> ParseTitle(words),
      location |-> ParseLocation(words),
      radiusMiles |-> ParseRadius(words),
      recency |-> ParseRecency(words)]

\* a text arrives and is parsed
parseQuery ==
  /\ reply = NoReply
  /\ \E text \in Texts :
       reply' = [op |-> "parse", text |-> text, params |-> parse(text)]
  /\ UNCHANGED <<req, storeVars, browserVars>>

NextParse == parseQuery \/ respond

SpecParse == Init /\ [][NextParse]_vars

----------------------------------------------------------------------------
(* The puppeteer variant: the same store behind a shared browser           *)

\* EvaluateFrom with the try around the loop: the first card that throws
\* ends the extraction
RECURSIVE EvaluateFromAbort(_, _, _, _)
EvaluateFromAbort(page, i, n, owner) ==
  IF i >= n \/ page[i + 1].throws THEN <<>>
  ELSE <<MakeJob(page[i + 1], i, owner)>>
       \o EvaluateFromAbort(page, i + 1, n, owner)

\* page.evaluate(maxResults => { for (i < Math.min(cards.length, maxResults))
\*   try { results.push({jobNumber: i + 1, ...}) } catch { /* skip */ } })
RECURSIVE EvaluateFrom(_, _, _, _)
EvaluateFrom(page, i, n, owner) ==
  IF i >= n THEN <<>>
  ELSE (IF page[i + 1].throws THEN <<>>
        ELSE <<MakeJob(page[i + 1], i, owner)>>)
       \o EvaluateFrom(page, i + 1, n, owner)

EvaluateJobs(page, maxResults, owner) ==
  EvaluateFrom(page, 0, Min(Len(page), maxResults), owner)

\* getBrowser() when sharedBrowser is set: the caller goes on to newPage
UseShared(r, locals) ==
  req' = [req EXCEPT ![r] =
            locals @@ [pc |-> "newPage", browser |-> sharedBrowser]]

\* getBrowser() when sharedBrowser is null: suspended in puppeteer.launch
AwaitLaunch(r, locals) ==
  req' = [req EXCEPT ![r] = locals @@ [pc |-> "launch", browser |-> 0]]

getBrowser(r, locals) ==
  IF sharedBrowser # 0 THEN UseShared(r, locals) ELSE AwaitLaunch(r, locals)

\* the value the catch block of the suspended handler returns
BrowserFailure(r, why) ==
  IF req[r].kind = "search"
  THEN [op |-> "search", outcome |-> why, value |-> SearchFailure(why)]
  ELSE [op |-> "detail", outcome |-> why, target |-> req[r].target,
        value |-> DetailFailure(why, req[r].target)]

\* searchJobs up to the first await inside getBrowser()
browserSearchJobs(r) ==
  /\ reply = NoReply
  /\ req[r].pc = "idle"
  /\ nStored < MaxBrowserSearches
  /\ \E limit \in BrowserLimits :
       getBrowser(r, [kind |-> "search", limit |-> limit])
  /\ UNCHANGED <<reply, storeVars, browserVars>>

\* getJobDetails, lookup successful, up to the first await in getBrowser()
browserGetJobDetails(r) ==
  /\ reply = NoReply
  /\ req[r].pc = "idle"
  /\ \E job_number \in JobNumberArgs, job_id \in JobIdArgs :
       /\ LookupJob(job_number, job_id) # NoJob
       /\ getBrowser(r, [kind |-> "detail",
                         target |-> Target(LookupJob(job_number, job_id))])
  /\ UNCHANGED <<reply, storeVars, browserVars>>

\* puppeteer.launch() resolves: sharedBrowser = <the new instance>
launched(r) ==
  /\ reply = NoReply
  /\ req[r].pc = "launch"
  /\ launches' = launches + 1
  /\ sharedBrowser' = launches + 1
  /\ req' = [req EXCEPT ![r].pc = "newPage", ![r].browser = launches + 1]
  /\ UNCHANGED <<reply, storeVars, openPages>>

\* puppeteer.launch() rejects: the handler's catch returns the failure
launchFailed(r) ==
  /\ reply = NoReply
  /\ req[r].pc = "launch"
  /\ reply' = BrowserFailure(r, "launch")
  /\ req' = [req EXCEPT ![r] = Idle]
  /\ UNCHANGED <<storeVars, browserVars>>

\* browser.newPage() resolves
pageOpened(r) ==
  /\ reply = NoReply
  /\ req[r].pc = "newPage"
  /\ openPages < MaxPages
  /\ openPages' = openPages + 1
  /\ req' = [req EXCEPT ![r].pc = "goto"]
  /\ UNCHANGED <<reply, storeVars, sharedBrowser, launches>>

\* page.goto / waitForSelector / evaluate rejects or times out
pageFailed(r) ==
  /\ reply = NoReply
  /\ req[r].pc = "goto"
  /\ \E why \in FetchFailures : reply' = BrowserFailure(r, why)
  /\ req' = [req EXCEPT ![r] = Idle]
  /\ UNCHANGED <<storeVars, browserVars>>

\* page.evaluate returns the jobs: store update and return
browserSearchStored(r) ==
  /\ reply = NoReply
  /\ req[r].pc = "goto"
  /\ req[r].kind = "search"
  /\ nStored < MaxBrowserSearches
  /\ \E page \in BrowserPages, dt \in {0, 1} :
       LET jobs == EvaluateJobs(page, req[r].limit, nStored + 1)
           searchId == now + dt
       IN /\ StoreUpdate(searchId, jobs)
          /\ reply' = [op |-> "search", outcome |-> "ok", page |-> page,
                       limit |-> req[r].limit,
                       value |-> SearchSuccess(searchId, jobs)]
  /\ req' = [req EXCEPT ![r] = Idle]
  /\ UNCHANGED browserVars

\* page.goto resolves but the page has no #card-scroll-container: the
\* waitForSelector of searchJobs times out and the catch block returns the
\* failure value
browserNoContainer(r) ==
  /\ reply = NoReply
  /\ req[r].pc = "goto"
  /\ req[r].kind = "search"
  /\ reply' = [op |-> "search", outcome |-> "selector", page |-> PageEmpty,
               limit |-> req[r].limit, value |-> SearchFailure("selector")]
  /\ req' = [req EXCEPT ![r] = Idle]
  /\ UNCHANGED <<storeVars, browserVars>>

\* page.evaluate returns the details
browserDetailFetched(r) ==
  /\ reply = NoReply
  /\ req[r].pc = "goto"
  /\ req[r].kind = "detail"
  /\ reply' = [op |-> "detail", outcome |-> "ok", target |-> req[r].target,
               value |-> DetailSuccess(req[r].target)]
  /\ req' = [req EXCEPT ![r] = Idle]
  /\ UNCHANGED <<storeVars, browserVars>>

NextBrowser ==
  \/ \E r \in Reqs :
       \/ browserSearchJobs(r)
       \/ browserGetJobDetails(r)
       \/ detailNotFound(r)
       \/ launched(r)
       \/ launchFailed(r)
       \/ pageOpened(r)
       \/ pageFailed(r)
       \/ browserSearchStored(r)
       \/ browserNoContainer(r)
       \/ browserDetailFetched(r)
  \/ respond

SpecBrowser == Init /\ [][NextBrowser]_vars

----------------------------------------------------------------------------
(* Claims                                                                  *)

\* C1: neither index holds an entry that refers to a job whose owning
\* session is no longer in the session cache (as stated; the eviction
\* deletes the cache entry only)
C1_NoIndexEntryOutlivesSession ==
  LET cached == {jobCache[i].owner : i \in 1..Len(jobCache)}
  IN /\ \A n \in DOMAIN jobIndex : jobIndex[n].owner \in cached
     /\ \A id \in DOMAIN jobIdIndex : jobIdIndex[id].owner \in cached

\* C2: a store update that finds 10 sessions cached evicts exactly the
\* session inserted earliest and keeps the 9 others and the new one; a step
\* that is not a store update leaves the cache order, and with it the next
\* session to be evicted, as it was
C2_EvictsEarliestInserted ==
  [][LET before == {jobCache[i].owner : i \in 1..Len(jobCache)}
         after == {jobCache'[i].owner : i \in 1..Len(jobCache')}
         earliest == CHOOSE o \in before : \A q \in before : o <= q
     IN /\ (nStored' = nStored + 1 /\ Len(jobCache) = MaxCached)
             => /\ Len(jobCache') = MaxCached
                /\ after = (before \ {earliest}) \cup {nStored + 1}
                /\ jobCache'[1].owner =
                     (CHOOSE o \in after : \A q \in after : o <= q)
        /\ nStored' = nStored => jobCache' = jobCache]_vars

\* C2 witness: the eleventh store update has evicted the first session and
\* a detail request has been answered since
C2_Witness ==
  /\ nStored = MaxCached + 1
  /\ Len(jobCache) = MaxCached
  /\ jobCache[1].owner = 2
  /\ reply.op = "detail"

\* C3: between two steps of the handlers the session cache holds at most 10
\* sessions
C3_AtMostTenSessions == Len(jobCache) <= MaxCached

\* C3 witness: more than 10 store updates have run and the cache is full
C3_Witness == nStored > MaxCached /\ Len(jobCache) = MaxCached

\* C4: after 11 store updates every job of every cached session is returned
\* by the lookup by its sequence number and, when it has one, by its
\* external id (as stated; jobIndex is keyed by the sequence number alone)
C4_CachedSessionsFullyIndexed ==
  nStored = MaxCached + 1 =>
    \A i \in 1..Len(jobCache) : \A j \in 1..Len(jobCache[i].jobs) :
      LET job == jobCache[i].jobs[j]
      IN /\ Target(LookupJob(job.jobNumber, "")) = Target(job)
         /\ job.jobId # "" => Target(LookupJob(0, job.jobId)) = Target(job)

\* C5: after the first store update, of a session with k jobs, the lookup by
\* sequence number n gives the n-th job of the session for 1 <= n <= k and
\* not-found for n > k, in the store, in the not-found replies and in the
\* targets of the detail requests in flight
C5_FirstSessionLookup ==
  nStored = 1 =>
    LET jobs == jobCache[1].jobs
    IN /\ \A n \in JobNumberArgs \ {0} :
            LookupJob(n, "") = IF n <= Len(jobs) THEN jobs[n] ELSE NoJob
       /\ (reply.op = "detail" /\ reply.outcome = "notfound"
             /\ reply.job_number # 0) => reply.job_number > Len(jobs)
       /\ \A r \in Reqs : req[r].pc = "detailFetch" =>
            /\ req[r].target.jobNumber \in 1..Len(jobs)
            /\ req[r].target = Target(jobs[req[r].target.jobNumber])

\* C5 witness: the first session has two jobs, job 2 is being fetched and a
\* lookup of job 3 has been answered not-found
C5_Witness ==
  /\ nStored = 1
  /\ Len(jobCache[1].jobs) = 2
  /\ \E r \in Reqs : req[r].pc = "detailFetch" /\ req[r].target.jobNumber = 2
  /\ reply.op = "detail" /\ reply.outcome = "notfound"
  /\ reply.job_number = 3

\* the summaries of the jobs of the cached sessions named by owners, the
\* session stored earliest first
RECURSIVE SummariesInInsertionOrder(_, _)
SummariesInInsertionOrder(cache, owners) ==
  IF owners = {} THEN <<>>
  ELSE LET first == CHOOSE o \in owners : \A q \in owners : o <= q
           entry == CHOOSE e \in {cache[i] : i \in 1..Len(cache)} :
                      e.owner = first
       IN [j \in 1..Len(entry.jobs) |->
             [jobNumber |-> entry.jobs[j].jobNumber,
              title |-> entry.jobs[j].title,
              company |-> entry.jobs[j].company]]
          \o SummariesInInsertionOrder(cache, owners \ {first})

\* C6: a detail request that matches no index entry is answered at once with
\* the not-found failure value, whose available_jobs are the jobs of the
\* cached sessions in the order the sessions were stored, and starts no
\* fetch; a request that starts a fetch has its target from an index
C6_NotFoundListsCachedJobs ==
  [][/\ (reply'.op = "detail" /\ reply'.outcome = "notfound") =>
          /\ req' = req
          /\ LookupJob(reply'.job_number, reply'.job_id) = NoJob
          /\ DOMAIN reply'.value = {"success", "error", "available_jobs"}
          /\ reply'.value.success = FALSE
          /\ reply'.value.available_jobs =
               SummariesInInsertionOrder(jobCache,
                 {jobCache[i].owner : i \in 1..Len(jobCache)})
     /\ \A r \in Reqs :
          (req[r].pc = "idle" /\ req'[r].pc = "detailFetch") =>
            \E job \in {jobIndex[n] : n \in DOMAIN jobIndex}
                         \cup {jobIdIndex[id] : id \in DOMAIN jobIdIndex} :
              req'[r].target = Target(job)]_vars

\* C6 witness: a not-found answer after the first eviction that lists the
\* jobs of more than one kind of session
C6_Witness ==
  /\ reply.op = "detail" /\ reply.outcome = "notfound"
  /\ nStored > MaxCached
  /\ Len(reply.value.available_jobs) > MaxCached
  /\ reply.value.available_jobs[1].title # reply.value.available_jobs[2].title

\* C7: every failed detail request for a cached job, the detail container
\* missing included, returns success = false with the failure reason and the
\* job's sequence number, title, company and URL (as stated; server.js
\* returns the bare { error } when the container is missing)
C7_FailureCarriesSummary ==
  (reply.op = "detail" /\ reply.outcome \in FetchFailures \cup {"nocontainer"})
    => LET v == reply.value
           t == reply.target
       IN /\ "success" \in DOMAIN v /\ v.success = FALSE
          /\ "error" \in DOMAIN v
          /\ "jobInfo" \in DOMAIN v
          /\ v.jobInfo = [jobNumber |-> t.jobNumber, title |-> t.title,
                          company |-> t.company, url |-> t.jobUrl]

\* C8: no step of a detail request changes the session cache or an index,
\* and an index changes only in the store update of a successful search
C8_DetailLeavesStore ==
  [][/\ (reply'.op = "detail"
           \/ \E r \in Reqs : req[r].pc = "idle" /\ req'[r].pc = "detailFetch")
          => UNCHANGED <<jobCache, jobIndex, jobIdIndex>>
     /\ (jobIndex' # jobIndex \/ jobIdIndex' # jobIdIndex)
          => /\ reply'.op = "search" /\ reply'.value.success
             /\ nStored' = nStored + 1]_vars

\* C8 witness: a detail fetch has failed while sessions are cached
C8_Witness ==
  /\ reply.op = "detail" /\ reply.outcome = "timeout"
  /\ Len(jobCache) >= 2
  /\ reply.target.jobNumber \in DOMAIN jobIndex

\* C9: whenever a request can run, every job of every cached session has an
\* entry under its sequence number in jobIndex and, if its external id is
\* not empty, under that id in jobIdIndex
C9_CachedJobsHaveIndexEntries ==
  \A i \in 1..Len(jobCache) : \A j \in 1..Len(jobCache[i].jobs) :
    LET job == jobCache[i].jobs[j]
    IN /\ job.jobNumber \in DOMAIN jobIndex
       /\ job.jobId # "" => job.jobId \in DOMAIN jobIdIndex

\* C9 witness: a detail request is answered while a search is in flight and
\* two sessions are cached
C9_Witness ==
  /\ reply.op = "detail"
  /\ Len(jobCache) >= 2
  /\ \E r \in Reqs : req[r].pc = "searchFetch"

\* C10: the browser is launched at most once and every request that holds a
\* browser holds the shared one (as stated; getBrowser tests sharedBrowser
\* before the await and assigns it after)
C10_SingleBrowser ==
  /\ launches <= 1
  /\ \A r \in Reqs :
       req[r].pc \in {"newPage", "goto"} => req[r].browser = sharedBrowser

\* the session stored by the search whose reply is being returned
StoredSession ==
  (CHOOSE e \in {jobCache[i] : i \in 1..Len(jobCache)} :
     e.key = reply.value.searchId).jobs

\* C11: the job list returned by a successful search and the session it
\* stores hold at most max(limit, 0) records, for every fetched page and
\* every limit (as stated; slice(0, limit) with a negative limit cuts cards
\* off the end of the page instead of returning none)
C11_AtMostLimitRecords ==
  (reply.op = "search" /\ reply.outcome = "ok") =>
    /\ Len(reply.value.jobs) <= Max(reply.limit, 0)
    /\ reply.value.totalResults <= Max(reply.limit, 0)
    /\ Len(StoredSession) <= Max(reply.limit, 0)

\* the cards among the first limit cards of a page that are read without
\* an exception, in page order
RECURSIVE ReadableCards(_, _)
ReadableCards(page, limit) ==
  IF page = <<>> \/ limit <= 0 THEN <<>>
  ELSE (IF Head(page).throws THEN <<>> ELSE <<Head(page)>>)
       \o ReadableCards(Tail(page), limit - 1)

\* C12: a search of the puppeteer variant whose page was fetched succeeds
\* whether or not a card throws while it is read, and returns exactly the
\* cards among the first limit cards that did not throw, in page order: each
\* throwing card lowers the number of jobs by one
C12_CardFailureLosesOnlyThatCard ==
  (reply.op = "search" /\ reply.outcome = "ok") =>
    LET kept == ReadableCards(reply.page, reply.limit)
        jobs == reply.value.jobs
    IN /\ reply.value.success
       /\ Len(jobs) = Len(kept)
       /\ reply.value.totalResults = Len(kept)
       /\ \A j \in 1..Len(kept) :
            jobs[j].title = kept[j].title /\ jobs[j].company = kept[j].company

\* C12 witness: the first card of the fetched page threw and the search
\* returned the second card alone
C12_Witness ==
  /\ reply.op = "search" /\ reply.outcome = "ok"
  /\ reply.page = PageC /\ reply.limit = DefaultLimit
  /\ reply.value.success
  /\ Len(reply.value.jobs) = 1
  /\ reply.value.jobs[1].title = "Clerk"

\* C13: the i-th job of the list a search returns and stores has sequence
\* number i, also when cards were skipped during extraction (as stated; the
\* puppeteer variant numbers a job by the position of its card on the page)
C13_SequenceNumbersAreDense ==
  (reply.op = "search" /\ reply.outcome = "ok") =>
    /\ \A i \in 1..Len(reply.value.jobs) : reply.value.jobs[i].jobNumber = i
    /\ \A i \in 1..Len(StoredSession) : StoredSession[i].jobNumber = i

\* C14: every request that is waiting for a fetch eventually returns, also
\* when no page and no network error ever arrives; the step that ends a
\* request ends that request alone and returns one value, a success value
\* or a failure value, and every returned value is handed on
C14_EveryRequestReturns ==
  /\ \A r \in Reqs : (req[r].pc # "idle") ~> (req[r].pc = "idle")
  /\ (reply # NoReply) ~> (reply = NoReply)
  /\ [][\A r \in Reqs :
          (req[r].pc # "idle" /\ req'[r].pc = "idle") =>
            /\ reply = NoReply /\ reply' # NoReply
            /\ DOMAIN reply'.value \cap {"success", "error"} # {}
            /\ \A q \in Reqs \ {r} : req'[q] = req[q]]_vars

\* C14 witness: a listing fetch has ended by its timeout while the other
\* request is still waiting for its detail page
C14_Witness ==
  /\ reply.op = "search" /\ reply.outcome = "timeout"
  /\ reply.value.success = FALSE
  /\ \E r \in Reqs : req[r].pc = "detailFetch"

\* what a caller can tell from a returned value alone
OutcomeKind(v) ==
  IF "success" \in DOMAIN v /\ v.success
  THEN (IF "totalResults" \in DOMAIN v /\ v.totalResults = 0
        THEN "zero jobs" ELSE "success")
  ELSE IF "available_jobs" \in DOMAIN v THEN "not found"
  ELSE IF "error" \in DOMAIN v /\ v.error = "timeout" THEN "timed out"
  ELSE "failure"

\* C15: the kind of an outcome can be read off the returned value: the
\* value of a search or detail request whose fetch timed out reads as timed
\* out, the value of a search that stored an empty session as zero jobs,
\* the value of a detail request that matched no index entry as not found;
\* so no value belongs to two of these kinds
C15_TimeoutIsDistinguishable ==
  /\ (reply.op \in {"search", "detail"} /\ reply.outcome = "timeout")
       => OutcomeKind(reply.value) = "timed out"
  /\ (reply.op = "search" /\ reply.outcome = "ok" /\ StoredSession = <<>>)
       => OutcomeKind(reply.value) = "zero jobs"
  /\ (reply.op = "detail" /\ reply.outcome = "notfound")
       => OutcomeKind(reply.value) = "not found"

\* C15 witness: a detail fetch has timed out after a search that found no
\* job and a search that found the job asked for
C15_Witness ==
  /\ reply.op = "detail" /\ reply.outcome = "timeout"
  /\ \E i \in 1..Len(jobCache) : jobCache[i].jobs = <<>>

\* C16: a search whose listing page was fetched and gave no card that could
\* be extracted returns the success value with totalResults = 0 and an empty
\* job list (as stated; the puppeteer variant waits for the container of
\* the cards and fails when the fetched page has none)
C16_NoCardIsZeroJobs ==
  (reply.op = "search" /\ "page" \in DOMAIN reply
     /\ ReadableCards(reply.page, reply.limit) = <<>>) =>
    /\ reply.value.success
    /\ reply.value.totalResults = 0
    /\ reply.value.jobs = <<>>

\* C17: the failure value of a search or of a detail request whose fetch
\* ended in a network error, a non-ok status or a timeout carries the URL
\* that was fetched (as stated; the failure value of searchJobs has the
\* fields success, error and details only)
C17_FetchFailureCarriesUrl ==
  (reply.op \in {"search", "detail"} /\ reply.outcome \in FetchFailures) =>
    LET v == reply.value
    IN \/ "url" \in DOMAIN v
       \/ "searchUrl" \in DOMAIN v
       \/ /\ "jobInfo" \in DOMAIN v
          /\ "url" \in DOMAIN v.jobInfo
          /\ v.jobInfo.url = reply.target.jobUrl

\* the calls of buildSearchUrl to be seen in a state: the one just answered
\* and those of the searches waiting for their fetch
UrlCalls ==
  (IF "url" \in DOMAIN reply THEN {reply} ELSE {})
  \cup {req[r] : r \in {q \in Reqs : "url" \in DOMAIN req[q]}}

\* the values of the parameter called name in a built URL
ParamValues(url, name) ==
  {url.params[i].value :
     i \in {j \in 1..Len(url.params) : url.params[j].name = name}}

\* C18: the rd parameter of a URL built for a radius is the radius clamped
\* to 1..50 (as stated; buildSearchUrl writes the radius as it is given)
C18_RadiusClamped ==
  \A c \in UrlCalls :
    c.radius.type = "number" =>
      /\ ~c.url.threw
      /\ ParamValues(c.url, "rd") =
           {NumberToString(Min(Max(c.radius.n, 1), 50))}

\* the recency a caller asks for: the one given, or the default when none
\* is given (undefined, null or the empty string)
RequestedRecency(given) == IF Truthy(given) THEN given ELSE DefaultRecency

\* C19: a built URL has a recency parameter, holding the recency asked for,
\* exactly when that recency is not the default; with the default recency,
\* given explicitly or omitted, the URL is the one built without a recency
C19_RecencyOnlyWhenNotDefault ==
  \A c \in UrlCalls :
    ~c.url.threw =>
      LET wanted == RequestedRecency(c.given)
      IN /\ (ParamValues(c.url, "recency") # {}) <=> (wanted # DefaultRecency)
         /\ wanted # DefaultRecency =>
              ParamValues(c.url, "recency") = {wanted.s}
         /\ wanted = DefaultRecency =>
              c.url = buildSearchUrl(c.query, c.location, c.radius, Undefined)

\* C19 witness: a direct call with a recency of two days has returned a URL
\* with that parameter while a search that gave no recency waits for the
\* fetch of a URL without one
C19_Witness ==
  /\ reply.op = "url" /\ reply.given = Str("last+2+days")
  /\ ~reply.url.threw
  /\ ParamValues(reply.url, "recency") = {"last+2+days"}
  /\ \E r \in Reqs :
       /\ req[r].pc = "searchFetch"
       /\ req[r].given = Undefined
       /\ ParamValues(req[r].url, "recency") = {}

\* C20: no call of the URL builder throws, an absent or null radius or
\* recency included, and a recency that is none of the four enum values
\* gives the URL of the default recency (as stated; radius.toString()
\* throws on null and undefined, and any other recency text is appended)
C20_BuilderNeverThrows ==
  \A c \in UrlCalls :
    /\ ~c.url.threw
    /\ c.recency \notin {Str(str) : str \in RecencyEnum} =>
         c.url = buildSearchUrl(c.query, c.location, c.radius, DefaultRecency)

\* C21: the URL built for "hr admin", "winnetka", radius 5 and the default
\* recency holds the parameters q, where, rd, page next to each other in
\* this order, serialized q=hr+admin&where=winnetka&rd=5&page=1, holds the
\* fixed sort parameter and no recency parameter (as stated; buildSearchUrl
\* lists page before rd)
C21_ExampleUrl ==
  \A c \in UrlCalls :
    (c.query = "hr admin" /\ c.location = "winnetka" /\ c.radius = Num(5)
       /\ RequestedRecency(c.given) = DefaultRecency) =>
      /\ ~c.url.threw
      /\ \E i \in 1..Len(c.url.params) - 3 :
           Serialize(SubSeq(c.url.params, i, i + 3))
             = "q=hr+admin&where=winnetka&rd=5&page=1"
      /\ ParamValues(c.url, "so") = {"m.h.sh"}
      /\ ParamValues(c.url, "recency") = {}

C23_OneNewSessionPerSearch ==
  /\ [](nStored <= MaxCached => Len(jobCache) = nStored)
  /\ [][nStored' = nStored + 1 =>
          /\ now' \notin CacheKeys(jobCache)
          /\ (Len(jobCache) < MaxCached =>
                /\ Len(jobCache') = Len(jobCache) + 1
                /\ SubSeq(jobCache', 1, Len(jobCache)) = jobCache)]_vars

C25_DescriptionFromFields ==
  reply.op = "card" =>
    LET job == reply.job
        head == job.company \o " is hiring for a " \o job.title
                \o " position in " \o job.location \o "."
        tail == " Posted: " \o job.recency \o "."
    IN /\ job.salary = "Not specified" => job.description = head \o tail
       /\ job.salary # "Not specified" =>
            job.description
              = head \o " Salary: " \o job.salary \o "." \o tail

\* C25 witness: a card without salary, location and date has been read
C25_Witness ==
  /\ reply.op = "card"
  /\ reply.card.salary = "" /\ reply.job.salary = "Not specified"
  /\ reply.job.description
       = "Acme is hiring for a Analyst position in N/A. Posted: N/A."

\* C26: the step in which a search fails, and the step in which a search
\* starts, create no session and leave the session cache and both indices
\* as they were
C26_FailedSearchLeavesStore ==
  [][((reply'.op = "search" /\ ~reply'.value.success)
        \/ \E r \in Reqs : req[r].pc = "idle" /\ req'[r].pc = "searchFetch")
       => /\ UNCHANGED <<jobCache, jobIndex, jobIdIndex>>
          /\ nStored' = nStored]_vars

\* C26 witness: a search has failed by a non-ok status while two sessions
\* are cached and indexed
C26_Witness ==
  /\ reply.op = "search" /\ reply.outcome = "status"
  /\ ~reply.value.success
  /\ Len(jobCache) = 2 /\ nStored = 2
  /\ DOMAIN jobIndex # {} /\ DOMAIN jobIdIndex # {}

\* C27: the job the lookup by sequence number n returns is numbered n and
\* comes from the latest search whose result held a job numbered n: a store
\* update makes every job of the new session the answer for its number and
\* leaves the answers for all other numbers, no other step changes an
\* answer, and no cached session newer than the answer holds a job
\* numbered n
C27_LookupReturnsLatest ==
  /\ [](\A n \in DOMAIN jobIndex :
          /\ LookupJob(n, "").jobNumber = n
          /\ \A i \in 1..Len(jobCache) :
               (\E j \in 1..Len(jobCache[i].jobs) :
                  jobCache[i].jobs[j].jobNumber = n)
                 => jobCache[i].owner <= LookupJob(n, "").owner)
  /\ [][IF nStored' = nStored + 1
         THEN LET session ==
                    (CHOOSE e \in {jobCache'[i] : i \in 1..Len(jobCache')} :
                       e.owner = nStored + 1).jobs
                  numbers == {session[j].jobNumber : j \in 1..Len(session)}
              IN /\ \A j \in 1..Len(session) :
                      MapGet(jobIndex', session[j].jobNumber) = session[j]
                 /\ \A n \in JobNumberArgs \ numbers :
                      MapGet(jobIndex', n) = MapGet(jobIndex, n)
         ELSE jobIndex' = jobIndex]_vars

\* C27 witness: the second search returned one job; job 1 is looked up from
\* the second session, and job 2, still from the first, is being fetched
C27_Witness ==
  /\ nStored = 2
  /\ {1, 2} \subseteq DOMAIN jobIndex
  /\ LookupJob(1, "").owner = 2
  /\ LookupJob(2, "").owner = 1
  /\ \E r \in Reqs : req[r].pc = "detailFetch" /\ req[r].target.jobNumber = 2

\* what a lookup returns to its caller: the fields of the job, or NoJob
Found(job) == IF job = NoJob THEN NoJob ELSE Target(job)

\* C28: on the sessions stored by the same searches the lookup through the
\* indices and the lookup by a scan of the cached sessions return the same
\* job, or both nothing, for every sequence number and every external id
\* (as stated; the scan returns the first cached session's job, the index
\* the job of the latest search)
C28_IndexAndScanAgree ==
  \A job_number \in JobNumberArgs, job_id \in JobIdArgs :
    Found(LookupJob(job_number, job_id)) = Found(ScanLookup(job_number, job_id))

\* C29: a detail request with a non-zero sequence number is answered from
\* the sequence-number index alone, not-found when the number has no entry
\* even though the external id given has one; the external id is looked up
\* only when the sequence number is absent or 0; a request with neither is
\* answered not-found
C29_NumberBeforeId ==
  /\ [](\A job_number \in JobNumberArgs, job_id \in JobIdArgs :
          LookupJob(job_number, job_id) =
            IF job_number # 0
            THEN (IF job_number \in DOMAIN jobIndex
                  THEN jobIndex[job_number] ELSE NoJob)
            ELSE IF job_id # "" /\ job_id \in DOMAIN jobIdIndex
            THEN jobIdIndex[job_id]
            ELSE NoJob)
  /\ [][(reply'.op = "detail" /\ reply'.outcome = "notfound") =>
          IF reply'.job_number # 0
          THEN reply'.job_number \notin DOMAIN jobIndex
          ELSE reply'.job_id = "" \/ reply'.job_id \notin DOMAIN jobIdIndex]_vars
  /\ [][\A r \in Reqs :
          (req[r].pc = "idle" /\ req'[r].pc = "detailFetch") =>
            \E job_number \in JobNumberArgs, job_id \in JobIdArgs :
              LET job == IF job_number # 0
                         THEN MapGet(jobIndex, job_number)
                         ELSE IF job_id # "" THEN MapGet(jobIdIndex, job_id)
                         ELSE NoJob
              IN job # NoJob /\ req'[r].target = Target(job)]_vars

\* C29 witness: a request for sequence number 3 and the indexed external id
\* j1 has been answered not-found
C29_Witness ==
  /\ reply.op = "detail" /\ reply.outcome = "notfound"
  /\ reply.job_number = 3 /\ reply.job_id = "j1"
  /\ "j1" \in DOMAIN jobIdIndex
  /\ 3 \notin DOMAIN jobIndex

\* C30: every page a request opened is closed when the request returns, so
\* no page is open while no request is in flight (as stated; the shared
\* browser variant never closes a page)
C30_NoPageOutlivesRequest ==
  (\A r \in Reqs : req[r].pc = "idle") => openPages = 0

====
